---- MODULE Spec2Model ----
(***************************************************************************)
(* License Key Manager CLI (src/main.js): the generate and verify commands, *)
(* the two validators, the key generator and the checksum codec.           *)
(*                                                                         *)
(* A JavaScript string is a sequence of one-character strings.  The hash   *)
(* primitives of node's crypto module are library code: they are modelled  *)
(* as deterministic functions from the bytes of the input to a digest of   *)
(* the primitive's size (32 bytes for SHA-256, 16 for MD5); everything the *)
(* program itself does with them (hex encoding, truncation, joining,       *)
(* splitting, comparing) is modelled as written.                           *)
(***************************************************************************)
EXTENDS Integers, Sequences, FiniteSets, TLC

VARIABLES
    pc,              \* position in the running command's handler
    cmd,             \* "generate" | "verify" | "roundtrip" (addChecksum, then verify)
    origin,          \* where the key given to verify comes from: "argv" | "generated" | "core"
    domain,          \* options.domain
    expire,          \* options.expire
    key,             \* options.key
    coreKey,         \* the core key handed to addChecksum in a round trip
    now,             \* the moment `new Date()` reads (src/main.js:126)
    tz,              \* the host's getTimezoneOffset(), in minutes
    fault,           \* which external primitive throws in this run, or "none"
    randomSalt,      \* the bytes crypto.randomBytes(16) returns
    machineId,       \* the string machineIdSync() returns
    parsedDate,      \* `date` of isValidExpirationDate: a time value, or Unset
    domainOk,        \* what isValidDomain returned: "true" | "false" | "unset"
    expireOk,        \* what isValidExpirationDate returned: "true" | "false" | "unset"
    hardwareId,      \* local of the generate handler
    licenseKey,      \* local of the generate handler (the core key)
    finalLicenseKey, \* local of the generate handler
    parts,           \* local of the verify handler
    stdout,          \* lines written by console.log, each the tuple of its arguments
    stderr,          \* lines written by console.error
    exitCode,        \* "running", "0" (handler returned) or "1" (process.exit(1))
    calls            \* the validators and external primitives called so far, in order

vars == <<pc, cmd, origin, domain, expire, key, coreKey, now, tz, fault, randomSalt,
          machineId, parsedDate, domainOk, expireOk, hardwareId, licenseKey,
          finalLicenseKey, parts, stdout, stderr, exitCode, calls>>

-----------------------------------------------------------------------------
(* Characters and strings *)

Digit == {"0", "1", "2", "3", "4", "5", "6", "7", "8", "9"}

LowerSeq == <<"a", "b", "c", "d", "e", "f", "g", "h", "i", "j", "k", "l", "m",
              "n", "o", "p", "q", "r", "s", "t", "u", "v", "w", "x", "y", "z">>

UpperSeq == <<"A", "B", "C", "D", "E", "F", "G", "H", "I", "J", "K", "L", "M",
              "N", "O", "P", "Q", "R", "S", "T", "U", "V", "W", "X", "Y", "Z">>

DigitSeq == <<"0", "1", "2", "3", "4", "5", "6", "7", "8", "9">>

Range(f) == {f[i] : i \in DOMAIN f}

Lower == Range(LowerSeq)

Upper == Range(UpperSeq)

IndexIn(seq, c) == CHOOSE i \in DOMAIN seq : seq[i] = c

\* The UTF-8 byte of a character (all characters used are ASCII).
Ord(c) ==
    IF c \in Digit THEN 47 + IndexIn(DigitSeq, c)
    ELSE IF c \in Upper THEN 64 + IndexIn(UpperSeq, c)
    ELSE IF c \in Lower THEN 96 + IndexIn(LowerSeq, c)
    ELSE CASE c = " " -> 32
           [] c = "-" -> 45
           [] c = "." -> 46
           [] c = "/" -> 47
           [] c = ":" -> 58
           [] c = "_" -> 95
           [] OTHER -> 63

Rep(c, n) == [i \in 1..n |-> c]

\* String.prototype.split with a one-character separator.
\* The k-th part lies between the (k-1)-th and the k-th separator; n separators
\* give n + 1 parts, empty ones included.
Split(s, sep) ==
    LET at == {i \in DOMAIN s : s[i] = sep}
        cut(k) == IF k = 0 THEN 0
                  ELSE IF k > Cardinality(at) THEN Len(s) + 1
                  ELSE CHOOSE i \in at : Cardinality({j \in at : j < i}) = k - 1
    IN  [k \in 1..(Cardinality(at) + 1) |-> SubSeq(s, cut(k - 1) + 1, cut(k) - 1)]

\* Template literal `${a}<sep>${b}`.
Joined(a, sep, b) == a \o <<sep>> \o b

-----------------------------------------------------------------------------
(* crypto: hex encoding and the two hash primitives *)

HexDigits == <<"0", "1", "2", "3", "4", "5", "6", "7", "8", "9",
               "a", "b", "c", "d", "e", "f">>

HexByteUpper(b) ==
    LET up == <<"0", "1", "2", "3", "4", "5", "6", "7", "8", "9",
                "A", "B", "C", "D", "E", "F">>
    IN  <<up[(b \div 16) + 1], up[(b % 16) + 1]>>

\* One byte as Buffer.toString('hex') / digest('hex') writes it.
HexByte(b) == <<HexDigits[(b \div 16) + 1], HexDigits[(b % 16) + 1]>>

\* Two digits a byte, the high one first.
ToHex(bytes) ==
    [i \in 1..(2 * Len(bytes)) |-> HexByte(bytes[(i + 1) \div 2])[2 - (i % 2)]]

SaltBytes == 16

Sha256Bytes == 32

Md5Bytes == 16

ChecksumLen == 8

\* The state of a hash started at h after update(data): every byte counts, with
\* its position (summed by halves).
RECURSIVE Mix(_, _, _)
Mix(data, lo, hi) ==
    IF lo > hi THEN 0
    ELSE IF lo = hi THEN (Ord(data[lo]) * (lo * lo + 3 * lo + 7)) % 65521
    ELSE LET mid == (lo + hi) \div 2
         IN  (Mix(data, lo, mid) + Mix(data, mid + 1, hi)) % 65521

Absorb(h, data) == (h * 131 + Len(data) + Mix(data, 1, Len(data))) % 65521

\* digest(): `size` bytes determined by the absorbed state.
Squeeze(h, size) == [i \in 1..size |-> ((h + 1) * (2 * i + 1) + (h \div 256) + 7 * i) % 256]

Sha256Hex(data) == ToHex(Squeeze(Absorb(17, data), Sha256Bytes))

Md5Hex(data) == ToHex(Squeeze(Absorb(5, data), Md5Bytes))

CalculateChecksum_NoTruncate(data) == Md5Hex(data)

\* calculateChecksum (src/main.js:140-146)
calculateChecksum(data) == SubSeq(Md5Hex(data), 1, ChecksumLen)

AddChecksum_DashSeparator(k) == Joined(k, "-", calculateChecksum(k))

\* addChecksum (src/main.js:153-156)
addChecksum(k) == Joined(k, ".", calculateChecksum(k))

\* The value generateLicenseKey returns (src/main.js:101-103) for the salt drawn.
generateLicenseKeyValue(salt, dom, exp, hw) ==
    Joined(salt, ".",
           Sha256Hex(Joined(Joined(Joined(salt, "-", dom), "-", exp), "-", hw)))

-----------------------------------------------------------------------------
(* isValidDomain (src/main.js:114-117) *)

AlNum == Digit \cup Lower \cup Upper

Alpha == Lower \cup Upper

LabelMidMin == 1

LabelMidMax == 61

TldMin == 2

\* (?:\.[a-zA-Z]{2,})+$ matched from position p: a dot, m >= 2 letters, and then
\* either the end of the input or another group.
RECURSIVE TldGroups(_, _)
TldGroups(s, p) ==
    /\ p <= Len(s)
    /\ s[p] = "."
    /\ \E m \in TldMin..(Len(s) - p) :
          /\ \A k \in (p + 1)..(p + m) : s[k] \in Alpha
          /\ \/ p + m = Len(s)
             \/ TldGroups(s, p + m + 1)

\* ^[a-zA-Z0-9][a-zA-Z0-9-]{1,61}[a-zA-Z0-9] with `mid` characters in the middle,
\* then the TLD groups up to the end of the input.
DomainRegexWith(s, mid) ==
    /\ mid + 2 <= Len(s)
    /\ s[1] \in AlNum
    /\ \A k \in 2..(mid + 1) : s[k] \in AlNum \cup {"-"}
    /\ s[mid + 2] \in AlNum
    /\ TldGroups(s, mid + 3)

IsValidDomain_Unanchored(s) ==
    \E mid \in LabelMidMin..LabelMidMax :
        \E n \in 1..Len(s) : DomainRegexWith(SubSeq(s, 1, n), mid)

isValidDomain(s) == \E mid \in LabelMidMin..LabelMidMax : DomainRegexWith(s, mid)

-----------------------------------------------------------------------------
(* Date: the moments and the parser behind `new Date(dateString)` *)

MsPerDay == 86400000

MsPerMinute == 60000

\* A time value: a moment, days since 1970-01-01 UTC and milliseconds into that
\* day, or NaN (an invalid Date).
Moment(day, ms) == [tag |-> "moment", day |-> day, ms |-> ms]

NaN == [tag |-> "NaN"]

\* isNaN(date.getTime())
IsNaN(a) == a.tag = "NaN"

\* a > b on two time values; false when either is NaN, as in JavaScript.
After(a, b) ==
    /\ ~IsNaN(a)
    /\ ~IsNaN(b)
    /\ \/ a.day > b.day
       \/ (a.day = b.day /\ a.ms > b.ms)

AfterOrEqual(a, b) == ~IsNaN(a) /\ ~IsNaN(b) /\ (After(a, b) \/ a = b)

AllDigits(s) == \A i \in DOMAIN s : s[i] \in Digit

RECURSIVE NumberOf(_)
NumberOf(s) ==
    IF s = <<>> THEN 0
    ELSE 10 * NumberOf(SubSeq(s, 1, Len(s) - 1)) + (Ord(s[Len(s)]) - 48)

\* ECMAScript DayFromYear and the day within the year of a month's first day.
DayFromYear(y) ==
    365 * (y - 1970) + ((y - 1969) \div 4) - ((y - 1901) \div 100) + ((y - 1601) \div 400)

InLeapYear(y) == (y % 4 = 0) /\ ((y % 100 # 0) \/ (y % 400 = 0))

MonthStart(y, m) ==
    LET common == <<0, 31, 59, 90, 120, 151, 181, 212, 243, 273, 304, 334>>
    IN  common[m] + (IF m > 2 /\ InLeapYear(y) THEN 1 ELSE 0)

\* ECMAScript MakeDay(year, month, date): the date is added as a count of days, so a
\* date past the end of the month runs on into the next month.
MakeDay(y, m, d) == DayFromYear(y) + MonthStart(y, m) + d - 1

IsMonth(m) == m \in 1..12

IsDay(d) == d \in 1..31

\* Midnight local time of day number `day`, for a host `offset` minutes behind UTC.
LocalMidnight(day, offset) ==
    IF offset >= 0 THEN Moment(day, offset * MsPerMinute)
    ELSE Moment(day - 1, MsPerDay + offset * MsPerMinute)

\* The date-only forms of the ECMAScript date-time format: YYYY, YYYY-MM, YYYY-MM-DD.
IsoDateShape(s) ==
    /\ Len(s) \in {4, 7, 10}
    /\ \A i \in DOMAIN s : IF i \in {5, 8} THEN s[i] = "-" ELSE s[i] \in Digit

IsoFields(s) ==
    [y |-> NumberOf(SubSeq(s, 1, 4)),
     m |-> IF Len(s) >= 7 THEN NumberOf(SubSeq(s, 6, 7)) ELSE 1,
     d |-> IF Len(s) = 10 THEN NumberOf(SubSeq(s, 9, 10)) ELSE 1]

\* What the engine's fallback parser reads as year-month-day: three runs of digits
\* joined by dashes, a 4-digit year, 1 or 2 digits of month and of day.
LenientShape(s) ==
    LET p == Split(s, "-")
    IN  /\ Len(p) = 3
        /\ \A i \in 1..3 : p[i] # <<>> /\ AllDigits(p[i])
        /\ Len(p[1]) = 4
        /\ Len(p[2]) \in 1..2
        /\ Len(p[3]) \in 1..2

LenientFields(s) ==
    LET p == Split(s, "-")
    IN  [y |-> NumberOf(p[1]), m |-> NumberOf(p[2]), d |-> NumberOf(p[3])]

\* The time values `new Date(s)` can have (src/main.js:125) on a host `offset`
\* minutes behind UTC.  A date-only string of the ECMAScript format is UTC midnight;
\* node's parser accepts any day 01..31 in any month there.  A year-month-day string
\* outside that format goes through the fallback parser and is local midnight.  For
\* any other string the fallback is implementation-defined: NaN, or some date.
DateParseOutcomes(s, offset) ==
    IF IsoDateShape(s) THEN
        LET f == IsoFields(s)
        IN  IF IsMonth(f.m) /\ IsDay(f.d)
            THEN {Moment(MakeDay(f.y, f.m, f.d), 0)}
            ELSE {NaN}
    ELSE IF LenientShape(s) THEN
        LET f == LenientFields(s)
        IN  IF IsMonth(f.m) /\ IsDay(f.d)
            THEN {LocalMidnight(MakeDay(f.y, f.m, f.d), offset)}
            ELSE {NaN}
    ELSE {NaN, LocalMidnight(MakeDay(2099, 1, 5), offset)}

\* /^\d{4}-\d{2}-\d{2}$/.test(dateString) (src/main.js:131)
DateRegexTest(s) ==
    /\ Len(s) = 10
    /\ \A i \in 1..10 : IF i \in {5, 8} THEN s[i] = "-" ELSE s[i] \in Digit

ExpirationResult_NotBefore(date, today, s) ==
    /\ ~IsNaN(date)
    /\ AfterOrEqual(date, today)
    /\ DateRegexTest(s)

ExpirationResult_NoPattern(date, today, s) ==
    /\ ~IsNaN(date)
    /\ After(date, today)

\* The value isValidExpirationDate returns (src/main.js:128-132) for the `date`
\* parsed and the `today` read.
ExpirationResult(date, today, s) ==
    /\ ~IsNaN(date)
    /\ After(date, today)
    /\ DateRegexTest(s)

-----------------------------------------------------------------------------
(* The inputs a run can be given, and the environment it can meet *)

MaxLabelLen == 65

MaxMonth == 13

MaxDay == 32

MaxCorePart == 2

Pad2(n) == <<DigitSeq[(n \div 10) + 1], DigitSeq[(n % 10) + 1]>>

Dec(n) == IF n < 10 THEN <<DigitSeq[n + 1]>> ELSE Pad2(n)

ExampleCom == <<"e", "x", "a", "m", "p", "l", "e", ".", "c", "o", "m">>

FarExpire == <<"2", "0", "9", "9", "-", "1", "2", "-", "3", "1">>

\* First labels: every length around the two ends of the accepted range, plain, with
\* a hyphen inside, at the start, at the end, and with an underscore inside.
LabelSamples ==
    LET lens == (1..4) \cup (61..MaxLabelLen)
    IN  {Rep("a", n) : n \in lens}
        \cup {<<"a">> \o Rep("-", n - 2) \o <<"9">> : n \in lens \ {1}}
        \cup {<<"-">> \o Rep("b", n - 1) : n \in lens}
        \cup {Rep("B", n - 1) \o <<"-">> : n \in lens}
        \cup {<<"a">> \o Rep("_", n - 2) \o <<"z">> : n \in lens \ {1}}

TailSamples ==
    {<<>>, <<".", "c">>, <<".", "c", "o", "m">>, <<".", "c", "o", ".", "u", "k">>, <<".", "E", "x", "a", "m", "p", "l", "e", ".", "C", "O", "M">>, <<".", "c", "0", "m">>, <<".", "c", "o", "m", ".">>, <<".", ".", "c", "o", "m">>,
     <<".", "1", "6", "8", ".", "1", ".", "1">>, <<".", "m", "y", "-", "s", "i", "t", "e", ".", "c", "o", "m">>, <<".", "c", "o", "m", " ">>, <<".", "c", "o", "m", "/", "x">>}

DomainSamples ==
    {l \o tl : l \in LabelSamples, tl \in TailSamples}
    \cup {<<>>, <<"1", "9", "2", ".", "1", "6", "8", ".", "1", ".", "1">>, <<"1", "0", ".", "0", ".", "0", ".", "1">>, <<":", ":", "1">>, <<"l", "o", "c", "a", "l", "h", "o", "s", "t">>, <<" ", "e", "x", "a", "m", "p", "l", "e", ".", "c", "o", "m">>,
          <<"w", "w", "w", ".", "e", "x", "a", "m", "p", "l", "e", ".", "c", "o", "m">>, <<"m", "y", "-", "s", "i", "t", "e", ".", "e", "x", "a", "m", "p", "l", "e", ".", "o", "r", "g">>, <<"e", "x", " ", "a", "m", "p", "l", "e", ".", "c", "o", "m">>}

YearSamples == {<<"2", "0", "2", "4">>, <<"2", "0", "9", "9">>}

MonthSamples == {0, 1, 2, 4, 12} \cup (13..MaxMonth)

DaySamples == {0, 1, 5} \cup (28..MaxDay)

\* Year-month-day strings: zero-padded (the documented format), and with the month
\* or the day written without padding.
DateSamples ==
    {y \o <<"-">> \o Pad2(m) \o <<"-">> \o Pad2(d) :
        y \in YearSamples, m \in MonthSamples, d \in DaySamples}
    \cup {y \o <<"-">> \o Dec(m) \o <<"-">> \o Dec(d) :
            y \in YearSamples, m \in {1, 2, 12}, d \in {5, 30}}
    \cup {y \o <<"-">> \o Pad2(m) \o <<"-">> \o Dec(d) :
            y \in YearSamples, m \in {1, 2}, d \in {5}}
    \cup {<<>>, <<"2", "0", "9", "9">>, <<"2", "0", "9", "9", "-", "0", "1">>, <<"2", "0", "9", "9", "0", "1", "0", "5">>, <<"2", "0", "9", "9", "/", "0", "1", "/", "0", "5">>, <<"t", "o", "m", "o", "r", "r", "o", "w">>,
          <<" ", "2", "0", "9", "9", "-", "0", "1", "-", "0", "5">>, <<"2", "0", "9", "9", "-", "0", "1", "-", "0", "5", " ">>, <<"x", "2", "0", "9", "9", "-", "0", "1", "-", "0", "5">>, <<"2", "0", "9", "9", "-", "0", "1", "-", "0", "5", "x">>,
          <<"2", "0", "9", "9", "-", "0", "1", "-", "0", "5", "T", "0", "0", ":", "0", "0">>, <<"1", "2", "0", "9", "9", "-", "0", "1", "-", "0", "5">>, <<"2", "0", "9", "9", "-", "0", "1", "-", "0", "5", "0">>, <<"9", "9", "-", "0", "1", "-", "0", "5">>,
          <<"2", "O", "9", "9", "-", "0", "1", "-", "0", "5">>, <<"2", "0", "9", "9", "_", "0", "1", "_", "0", "5">>}

\* The clock: an ordinary present, the instant 2099-01-05T00:00:00.000Z, the
\* milliseconds on either side of it, the same for 2099-03-02, and a far future.
NowSamples ==
    {Moment(19889, 43200000),
     Moment(47120, MsPerDay - 1), Moment(47121, 0), Moment(47121, 1),
     Moment(47176, MsPerDay - 1), Moment(47177, 0),
     Moment(47900, 0)}

TzSamples == {-60, 0, 300}

Faults == {"none", "machineId", "sha256", "randomBytes", "md5"}

\* crypto.randomBytes(16): 16 bytes.
SaltSamples ==
    {[i \in 1..SaltBytes |-> (a + b * i) % 256] : a \in {0, 171, 255}, b \in {0, 29}}

DefaultSalt == [i \in 1..SaltBytes |-> (171 + 29 * i) % 256]

MachineIdSamples == {<<"a", "b", "c", "1", "2", "3">>, <<"9", "c", "5", "f", "-", "A", "1">>}

SampleCore == generateLicenseKeyValue(ToHex(DefaultSalt), ExampleCom, FarExpire, <<"a", "b", "c", "1", "2", "3">>)

\* Core keys handed to addChecksum: with no, one and two dots.
CoreKeySamples ==
    {Rep("a", n) \o <<".">> \o Rep("b", m) : n \in 0..MaxCorePart, m \in 0..MaxCorePart}
    \cup {Rep("a", n) : n \in 0..MaxCorePart}
    \cup {Rep("a", n) \o <<".">> \o Rep("b", m) \o <<".">> \o Rep("c", n) :
            n \in 0..MaxCorePart, m \in 0..MaxCorePart}
    \cup {SampleCore, <<"s", "a", "l", "t", ".", "h", "a", "s", "h">>, <<"a", "-", "b", ".", "c", "_", "d">>, <<"A", "1", ".", "F", "0">>, <<"d", "e", "a", "d", "b", "e", "e", "f", ".", "c", "a", "f", "e", "b", "a", "b", "e">>}

ReplaceLast(s, c) == SubSeq(s, 1, Len(s) - 1) \o <<c>>

\* Keys given to verify on the command line: malformed ones, well-formed ones with
\* a wrong checksum, and ones whose checksum matches.
KeySamples ==
    {<<>>, <<"a", "b", "c">>, <<"a", ".", "b">>, <<"a", ".", "b", ".", "c">>, <<"a", ".", "b", ".", "c", ".", "d">>, <<".", ".">>, <<".", ".", ".">>, <<".">>, <<"a", ".", "b", ".">>,
     <<"d", "e", "a", "d", "b", "e", "e", "f", ".", "c", "a", "f", "e", "b", "a", "b", "e", ".", "0", "0", "0", "0", "0", "0", "0", "0">>,
     <<"a", "1", "b", "2", "c", "3", "d", "4", "e", "5", "f", "6", "g", "7", "h", "8", ".", "a", "b", "c", "d", "e", "f", "1", "2", "3", "4", "5", "6", "7", "8", "9", "0", ".", "1", "2", "3", "4", "5", "6", "7", "8">>}
    \cup {addChecksum(c) : c \in {<<"a", ".", "b">>, <<".">>, <<"d", "e", "a", "d", "b", "e", "e", "f", ".", "c", "a", "f", "e", "b", "a", "b", "e">>, <<"A", "1", ".", "F", "0">>, SampleCore}}
    \cup {ReplaceLast(addChecksum(SampleCore), "g"),
          addChecksum(SampleCore) \o <<"0">>,
          addChecksum(SampleCore) \o <<".", "0", "0">>,
          SubSeq(addChecksum(SampleCore), 1, 100),
          <<"f">> \o Tail(addChecksum(SampleCore))}

-----------------------------------------------------------------------------
(* The program *)

Unset == [tag |-> "unset"]

BoolStr(b) == IF b THEN "true" ELSE "false"

InvalidDomainMessage == "Invalid domain format"

InvalidExpirationMessage ==
    "Invalid expiration date. Use format YYYY-MM-DD and date must be in the future"

GenerationFailedMessage == "Failed to generate license key"

MalformedKeyMessage == "Invalid license key format"

ChecksumMismatchMessage == "Invalid license key: checksum mismatch"

\* The messages of errors thrown by the libraries, which the handlers print as they are.
MachineIdErrorMessage == "machineIdSync: error"

Md5ErrorMessage == "createHash('md5'): error"

\* The state when commander calls a command's handler (program.parse, src/main.js:88).
Start(c, o, dom, exp, k, core, n, z, f, salt, mid) ==
    /\ cmd = c
    /\ origin = o
    /\ domain = dom
    /\ expire = exp
    /\ key = k
    /\ coreKey = core
    /\ now = n
    /\ tz = z
    /\ fault = f
    /\ randomSalt = salt
    /\ machineId = mid
    /\ pc = CASE c = "generate" -> "g_domain"
              [] c = "verify" -> "v_split"
              [] OTHER -> "r_add"
    /\ parsedDate = Unset
    /\ domainOk = "unset"
    /\ expireOk = "unset"
    /\ hardwareId = <<>>
    /\ licenseKey = <<>>
    /\ finalLicenseKey = <<>>
    /\ parts = <<>>
    /\ stdout = <<>>
    /\ stderr = <<>>
    /\ exitCode = "running"
    /\ calls = <<>>

StartGenerate(dom, exp, n, z, f, salt, mid) ==
    Start("generate", "argv", dom, exp, <<>>, <<>>, n, z, f, salt, mid)

Init ==
    \/ \E dom \in DomainSamples :
          StartGenerate(dom, FarExpire, Moment(19889, 43200000), 0, "none",
                        DefaultSalt, <<"a", "b", "c", "1", "2", "3">>)
    \/ \E exp \in DateSamples, n \in NowSamples, z \in TzSamples :
          StartGenerate(ExampleCom, exp, n, z, "none", DefaultSalt, <<"a", "b", "c", "1", "2", "3">>)
    \/ \E dom \in {ExampleCom, <<"-", "b", "a", "d", ".", "c", "o", "m">>}, exp \in {FarExpire, <<"2", "0", "2", "0", "-", "0", "1", "-", "0", "1">>, <<"2", "0", "9", "9", "-", "1", "-", "5">>},
          f \in Faults, salt \in SaltSamples, mid \in MachineIdSamples :
          StartGenerate(dom, exp, Moment(19889, 43200000), 0, f, salt, mid)
    \/ \E k \in KeySamples, f \in {"none", "md5"} :
          Start("verify", "argv", <<>>, <<>>, k, <<>>, Moment(19889, 43200000), 0, f,
                DefaultSalt, <<"a", "b", "c", "1", "2", "3">>)
    \/ \E core \in CoreKeySamples :
          Start("roundtrip", "core", <<>>, <<>>, <<>>, core, Moment(19889, 43200000), 0,
                "none", DefaultSalt, <<"a", "b", "c", "1", "2", "3">>)

-----------------------------------------------------------------------------
(* The generate command (src/main.js:30-51) *)

\* throw new Error(msg) inside the handler's try: the catch prints the message to
\* standard error and calls process.exit(1) (src/main.js:47-50, 82-85).
Throw(msg) ==
    /\ stderr' = Append(stderr, <<"Error:", msg>>)
    /\ exitCode' = "1"
    /\ pc' = "done"

Inputs == <<cmd, origin, domain, expire, coreKey, now, tz, fault, randomSalt, machineId>>

GenCheckDomain_NoThrow ==
    /\ pc = "g_domain"
    /\ calls' = Append(calls, "isValidDomain")
    /\ domainOk' = BoolStr(isValidDomain(domain))
    /\ pc' = "g_expire"
    /\ UNCHANGED <<stderr, exitCode>>
    /\ UNCHANGED <<Inputs, key, parsedDate, expireOk, hardwareId, licenseKey,
                   finalLicenseKey, parts, stdout>>

\* if (!isValidDomain(domain)) throw (src/main.js:34-36)
GenCheckDomain ==
    /\ pc = "g_domain"
    /\ calls' = Append(calls, "isValidDomain")
    /\ domainOk' = BoolStr(isValidDomain(domain))
    /\ IF isValidDomain(domain)
       THEN pc' = "g_expire" /\ UNCHANGED <<stderr, exitCode>>
       ELSE Throw(InvalidDomainMessage)
    /\ UNCHANGED <<Inputs, key, parsedDate, expireOk, hardwareId, licenseKey,
                   finalLicenseKey, parts, stdout>>

GenCheckExpire_NoThrow ==
    /\ pc = "g_expire"
    /\ calls' = Append(calls, "isValidExpirationDate")
    /\ \E date \in DateParseOutcomes(expire, tz) :
          /\ parsedDate' = date
          /\ expireOk' = BoolStr(ExpirationResult(date, now, expire))
    /\ pc' = "g_hwid"
    /\ UNCHANGED <<stderr, exitCode>>
    /\ UNCHANGED <<Inputs, key, domainOk, hardwareId, licenseKey, finalLicenseKey,
                   parts, stdout>>

\* if (!isValidExpirationDate(expire)) throw (src/main.js:38-40), with
\* isValidExpirationDate (src/main.js:124-133) parsing the string and reading the clock.
GenCheckExpire ==
    /\ pc = "g_expire"
    /\ calls' = Append(calls, "isValidExpirationDate")
    /\ \E date \in DateParseOutcomes(expire, tz) :
          /\ parsedDate' = date
          /\ expireOk' = BoolStr(ExpirationResult(date, now, expire))
          /\ IF ExpirationResult(date, now, expire)
             THEN pc' = "g_hwid" /\ UNCHANGED <<stderr, exitCode>>
             ELSE Throw(InvalidExpirationMessage)
    /\ UNCHANGED <<Inputs, key, domainOk, hardwareId, licenseKey, finalLicenseKey,
                   parts, stdout>>

\* const hardwareId = machineIdSync() (src/main.js:42)
GenHardwareId ==
    /\ pc = "g_hwid"
    /\ calls' = Append(calls, "machineIdSync")
    /\ IF fault = "machineId"
       THEN Throw(MachineIdErrorMessage) /\ UNCHANGED hardwareId
       ELSE /\ hardwareId' = machineId
            /\ pc' = "g_key"
            /\ UNCHANGED <<stderr, exitCode>>
    /\ UNCHANGED <<Inputs, key, parsedDate, domainOk, expireOk, licenseKey,
                   finalLicenseKey, parts, stdout>>

\* const licenseKey = generateLicenseKey(domain, expire, hardwareId)
\* (src/main.js:43, 98-107): an error of createHash, randomBytes, update or digest
\* is caught and rethrown as 'Failed to generate license key'.
GenGenerateKey ==
    /\ pc = "g_key"
    /\ IF fault = "sha256"
       THEN /\ calls' = Append(calls, "createHash:sha256")
            /\ Throw(GenerationFailedMessage)
            /\ UNCHANGED licenseKey
       ELSE IF fault = "randomBytes"
       THEN /\ calls' = calls \o <<"createHash:sha256", "randomBytes">>
            /\ Throw(GenerationFailedMessage)
            /\ UNCHANGED licenseKey
       ELSE /\ calls' = calls \o <<"createHash:sha256", "randomBytes", "update", "digest">>
            /\ licenseKey' = generateLicenseKeyValue(ToHex(randomSalt), domain, expire,
                                                     hardwareId)
            /\ pc' = "g_checksum"
            /\ UNCHANGED <<stderr, exitCode>>
    /\ UNCHANGED <<Inputs, key, parsedDate, domainOk, expireOk, hardwareId,
                   finalLicenseKey, parts, stdout>>

\* const finalLicenseKey = addChecksum(licenseKey) (src/main.js:44)
GenAddChecksum ==
    /\ pc = "g_checksum"
    /\ calls' = Append(calls, "createHash:md5")
    /\ IF fault = "md5"
       THEN Throw(Md5ErrorMessage) /\ UNCHANGED finalLicenseKey
       ELSE /\ finalLicenseKey' = addChecksum(licenseKey)
            /\ pc' = "g_print"
            /\ UNCHANGED <<stderr, exitCode>>
    /\ UNCHANGED <<Inputs, key, parsedDate, domainOk, expireOk, hardwareId, licenseKey,
                   parts, stdout>>

\* console.log('Generated License Key:', finalLicenseKey) (src/main.js:46); the
\* handler returns and the process ends with status 0.
GenPrint ==
    /\ pc = "g_print"
    /\ stdout' = Append(stdout, <<"Generated License Key:", finalLicenseKey>>)
    /\ exitCode' = "0"
    /\ pc' = "done"
    /\ UNCHANGED <<Inputs, key, parsedDate, domainOk, expireOk, hardwareId, licenseKey,
                   finalLicenseKey, parts, stderr, calls>>

-----------------------------------------------------------------------------
(* The verify command (src/main.js:62-86) *)

VerifySplit_AtLeastThree ==
    /\ pc = "v_split"
    /\ parts' = Split(key, ".")
    /\ IF Len(Split(key, ".")) < 3
       THEN Throw(MalformedKeyMessage)
       ELSE pc' = "v_checksum" /\ UNCHANGED <<stderr, exitCode>>
    /\ UNCHANGED <<Inputs, key, parsedDate, domainOk, expireOk, hardwareId, licenseKey,
                   finalLicenseKey, stdout, calls>>

\* const parts = key.split('.'); if (parts.length !== 3) throw (src/main.js:65-69)
VerifySplit ==
    /\ pc = "v_split"
    /\ parts' = Split(key, ".")
    /\ IF Len(Split(key, ".")) # 3
       THEN Throw(MalformedKeyMessage)
       ELSE pc' = "v_checksum" /\ UNCHANGED <<stderr, exitCode>>
    /\ UNCHANGED <<Inputs, key, parsedDate, domainOk, expireOk, hardwareId, licenseKey,
                   finalLicenseKey, stdout, calls>>

\* const [salt, hash, checksum] = parts;
\* const expectedChecksum = calculateChecksum(`${salt}.${hash}`);
\* if (checksum !== expectedChecksum) throw (src/main.js:71-76)
VerifyChecksum ==
    /\ pc = "v_checksum"
    /\ calls' = Append(calls, "createHash:md5")
    /\ IF fault = "md5"
       THEN Throw(Md5ErrorMessage)
       ELSE IF parts[3] # calculateChecksum(Joined(parts[1], ".", parts[2]))
       THEN Throw(ChecksumMismatchMessage)
       ELSE pc' = "v_print" /\ UNCHANGED <<stderr, exitCode>>
    /\ UNCHANGED <<Inputs, key, parsedDate, domainOk, expireOk, hardwareId, licenseKey,
                   finalLicenseKey, parts, stdout>>

\* The four console.log calls (src/main.js:78-81); the handler returns.
VerifyPrint ==
    /\ pc = "v_print"
    /\ stdout' = stdout \o <<<<"License key is valid">>,
                             <<"Salt:", parts[1]>>,
                             <<"Hash:", parts[2]>>,
                             <<"Checksum:", parts[3]>>>>
    /\ exitCode' = "0"
    /\ pc' = "done"
    /\ UNCHANGED <<Inputs, key, parsedDate, domainOk, expireOk, hardwareId, licenseKey,
                   finalLicenseKey, parts, stderr, calls>>

-----------------------------------------------------------------------------
(* What is done with a key: the key generate printed is given to verify, and a
   core key is given to addChecksum and the result to verify *)

\* A second run of the program: verify --key <the key the generate run printed>.
VerifyGenerated ==
    /\ pc = "done"
    /\ cmd = "generate"
    /\ exitCode = "0"
    /\ cmd' = "verify"
    /\ origin' = "generated"
    /\ key' = stdout[Len(stdout)][2]
    /\ pc' = "v_split"
    /\ stdout' = <<>>
    /\ stderr' = <<>>
    /\ exitCode' = "running"
    /\ calls' = <<>>
    /\ parts' = <<>>
    /\ UNCHANGED <<domain, expire, coreKey, now, tz, fault, randomSalt, machineId,
                   parsedDate, domainOk, expireOk, hardwareId, licenseKey,
                   finalLicenseKey>>

\* addChecksum(coreKey) (src/main.js:153-156), its result then given to verify.
RoundTripAddChecksum ==
    /\ pc = "r_add"
    /\ key' = addChecksum(coreKey)
    /\ calls' = Append(calls, "createHash:md5")
    /\ pc' = "v_split"
    /\ UNCHANGED <<Inputs, parsedDate, domainOk, expireOk, hardwareId, licenseKey,
                   finalLicenseKey, parts, stdout, stderr, exitCode>>

Next ==
    \/ GenCheckDomain
    \/ GenCheckExpire
    \/ GenHardwareId
    \/ GenGenerateKey
    \/ GenAddChecksum
    \/ GenPrint
    \/ VerifySplit
    \/ VerifyChecksum
    \/ VerifyPrint
    \/ VerifyGenerated
    \/ RoundTripAddChecksum

Spec == Init /\ [][Next]_vars

-----------------------------------------------------------------------------
(* Vocabulary of the properties, stated apart from the program's own tests *)

LowerHex == Digit \cup {"a", "b", "c", "d", "e", "f"}

IsLowerHex(s, n) == Len(s) = n /\ \A i \in DOMAIN s : s[i] \in LowerHex

DotCount(s) == Cardinality({i \in DOMAIN s : s[i] = "."})

\* The part of s before its first dot (all of s when it has none).
FirstLabel(s) ==
    LET dots == {i \in DOMAIN s : s[i] = "."}
    IN  IF dots = {} THEN s
        ELSE SubSeq(s, 1, (CHOOSE i \in dots : \A j \in dots : i <= j) - 1)

\* <32 lowercase hex>.<64 lowercase hex>.<8 lowercase hex>, 106 characters.
IsWireFormat(k) ==
    /\ Len(k) = 106
    /\ \A i \in DOMAIN k : IF i \in {33, 98} THEN k[i] = "." ELSE k[i] \in LowerHex

GenerateDone == cmd = "generate" /\ pc = "done"

\* A verify run (of a key from the command line, from generate or from
\* addChecksum) that has ended.
VerifyDone == pc = "done" /\ (cmd = "verify" \/ cmd = "roundtrip")

ReportedValid ==
    /\ VerifyDone
    /\ stdout # <<>>
    /\ stdout[1] = <<"License key is valid">>
    /\ exitCode = "0"

FailedWith(msg) ==
    /\ stderr = <<<<"Error:", msg>>>>
    /\ exitCode = "1"
    /\ stdout = <<>>

\* The three parts verify echoes, joined with dots.
EchoedKey == Joined(Joined(stdout[2][2], ".", stdout[3][2]), ".", stdout[4][2])

\* Four digits, dash, two digits, dash, two digits.
MatchesYMD(s) ==
    LET p == Split(s, "-")
    IN  /\ Len(p) = 3
        /\ Len(p[1]) = 4 /\ Len(p[2]) = 2 /\ Len(p[3]) = 2
        /\ \A i \in 1..3 : AllDigits(p[i])

LeapYear(y) == IF y % 400 = 0 THEN TRUE ELSE IF y % 100 = 0 THEN FALSE ELSE y % 4 = 0

DaysInMonth(y, m) ==
    IF m = 2 THEN (IF LeapYear(y) THEN 29 ELSE 28)
    ELSE IF m \in {4, 6, 9, 11} THEN 30 ELSE 31

\* The string names a day of the calendar.
NamesCalendarDay(s) ==
    /\ MatchesYMD(s)
    /\ LET p == Split(s, "-")
       IN  /\ NumberOf(p[2]) \in 1..12
           /\ NumberOf(p[3]) \in 1..DaysInMonth(NumberOf(p[1]), NumberOf(p[2]))

\* Days from 1970-01-01 to the day y-m-d, counted year by year and month by month.
CalendarDayNumber(y, m, d) ==
    365 * (y - 1970)
    + Cardinality({yy \in 1970..(y - 1) : LeapYear(yy)})
    + Cardinality({<<mm, dd>> \in (1..12) \X (1..31) : mm < m /\ dd <= DaysInMonth(y, mm)})
    + (d - 1)

\* The moment a calendar day starts, 00:00:00.000 UTC, is later than the clock's.
StartsAfterNow(s) ==
    LET p == Split(s, "-")
        day == CalendarDayNumber(NumberOf(p[1]), NumberOf(p[2]), NumberOf(p[3]))
    IN  day > now.day

\* The domain grammar: a first label of 3 to 63 characters, alphanumeric at both
\* ends and alphanumeric or hyphen between, then one or more segments of two or
\* more letters.
GrammarDomain(s) ==
    LET p == Split(s, ".")
    IN  /\ Len(p) >= 2
        /\ Len(p[1]) \in 3..63
        /\ p[1][1] \in AlNum
        /\ p[1][Len(p[1])] \in AlNum
        /\ \A i \in DOMAIN p[1] : p[1][i] \in AlNum \cup {"-"}
        /\ \A k \in 2..Len(p) : Len(p[k]) >= 2 /\ \A i \in DOMAIN p[k] : p[k][i] \in Alpha

IsIpLiteral(s) ==
    LET p == Split(s, ".")
    IN  Len(p) = 4 /\ \A k \in 1..4 : p[k] # <<>> /\ AllDigits(p[k])

StepOf(call) ==
    CASE call = "isValidDomain" -> 1
      [] call = "isValidExpirationDate" -> 2
      [] call = "machineIdSync" -> 3
      [] call \in {"createHash:sha256", "randomBytes", "update", "digest"} -> 4
      [] call = "createHash:md5" -> 5

-----------------------------------------------------------------------------
(* Properties *)

\* C1: the generate command is all-or-nothing.  Whatever is on standard output is
\* one complete key line, printed only after both validators returned true, the
\* hardware id was obtained and no primitive threw; a run that ends any other way
\* has printed nothing to standard output, an error to standard error, and has
\* exited with status 1.
C1_GenerateAllOrNothing ==
    cmd = "generate" =>
        /\ stdout # <<>> =>
              /\ stdout = <<<<"Generated License Key:", addChecksum(licenseKey)>>>>
              /\ DotCount(licenseKey) = 1
              /\ isValidDomain(domain)
              /\ expireOk = "true"
              /\ hardwareId = machineId
              /\ fault = "none"
              /\ stderr = <<>>
              /\ exitCode = "0"
        /\ pc = "done" =>
              IF isValidDomain(domain) /\ expireOk = "true" /\ fault = "none"
              THEN stdout # <<>> /\ exitCode = "0"
              ELSE /\ stdout = <<>>
                   /\ Len(stderr) = 1
                   /\ stderr[1][1] = "Error:"
                   /\ exitCode = "1"

C1_Witness ==
    /\ GenerateDone
    /\ fault = "md5"
    /\ licenseKey # <<>>
    /\ stdout = <<>>
    /\ stderr # <<>>
    /\ exitCode = "1"

\* C2: verify classifies the key.  A key that does not split into exactly 3 parts
\* fails with the malformed-key error; a 3-part key whose third part differs from
\* the checksum of the first two fails with the checksum-mismatch error; a 3-part
\* key whose third part equals it is reported valid (the last two in a run where
\* the MD5 primitive returns).  No failing run prints 'valid', and every failing
\* run exits with status 1.
C2_VerifyClassifies ==
    VerifyDone =>
        /\ DotCount(key) # 2 => FailedWith(MalformedKeyMessage)
        /\ (DotCount(key) = 2 /\ fault # "md5") =>
              LET p == Split(key, ".")
              IN  IF p[3] # calculateChecksum(Joined(p[1], ".", p[2]))
                  THEN FailedWith(ChecksumMismatchMessage)
                  ELSE ReportedValid /\ stderr = <<>>
        /\ ReportedValid \/ (exitCode = "1" /\ stdout = <<>> /\ stderr # <<>>)

C2_Witness ==
    /\ VerifyDone
    /\ DotCount(key) = 3
    /\ FailedWith(MalformedKeyMessage)

\* C3: round trip.  addChecksum of a core key with exactly one dot, given to
\* verify, is reported valid and the three parts echoed join to the string given;
\* so is every key the generate command printed.
C3_RoundTrip ==
    /\ (VerifyDone /\ origin = "core" /\ DotCount(coreKey) = 1) =>
          /\ ReportedValid
          /\ EchoedKey = key
          /\ SubSeq(key, 1, Len(coreKey)) = coreKey
    /\ (VerifyDone /\ origin = "generated") =>
          /\ ReportedValid
          /\ EchoedKey = key
          /\ key = finalLicenseKey

C3_Witness ==
    /\ VerifyDone
    /\ origin = "core"
    /\ coreKey = SampleCore
    /\ ReportedValid
    /\ EchoedKey = key

\* C4: every key the generate command prints is
\* <32 lowercase hex>.<64 lowercase hex>.<8 lowercase hex>, 106 characters.
C4_GeneratedWireFormat ==
    (cmd = "generate" /\ stdout # <<>>) =>
        /\ IsWireFormat(stdout[1][2])
        /\ Len(Split(stdout[1][2], ".")) = 3

C4_Witness ==
    /\ GenerateDone
    /\ stdout # <<>>
    /\ randomSalt[1] = 255
    /\ machineId = <<"9", "c", "5", "f", "-", "A", "1">>

\* C5: isValidExpirationDate returns true only for a string that names a day of
\* the calendar.
C5_OnlyCalendarDays == expireOk = "true" => NamesCalendarDay(expire)

\* C6: isValidExpirationDate returns false for every string that is not four
\* digits, dash, two digits, dash, two digits, whatever the parser made of it.
C6_PatternRequired ==
    (expireOk # "unset" /\ ~MatchesYMD(expire)) => expireOk = "false"

C6_Witness ==
    /\ expire = <<"2", "0", "9", "9", "-", "1", "-", "5">>
    /\ parsedDate.tag = "moment"
    /\ After(parsedDate, now)
    /\ expireOk = "false"

\* C7: for a correctly formatted string naming a calendar day, isValidExpirationDate
\* returns true exactly when the start of that day (UTC) is strictly after the
\* clock's moment; the very moment the clock shows is rejected.
C7_StrictlyFuture ==
    (expireOk # "unset" /\ NamesCalendarDay(expire)) =>
        (expireOk = "true" <=> StartsAfterNow(expire))

C7_Witness ==
    /\ expire = <<"2", "0", "9", "9", "-", "0", "1", "-", "0", "5">>
    /\ now = Moment(47121, 0)
    /\ parsedDate = now
    /\ expireOk = "false"

\* C8: isValidDomain is true exactly for the strings of the domain grammar; it is
\* false for a label with a leading or trailing hyphen, for a string with an
\* underscore, without a TLD segment, with a first label of length 1, and for an
\* IP literal.
C8_DomainGrammar ==
    domainOk # "unset" =>
        /\ domainOk = "true" <=> GrammarDomain(domain)
        /\ (domain # <<>> /\ domain[1] = "-") => domainOk = "false"
        /\ (FirstLabel(domain) # <<>> /\ FirstLabel(domain)[Len(FirstLabel(domain))] = "-")
              => domainOk = "false"
        /\ "_" \in Range(domain) => domainOk = "false"
        /\ DotCount(domain) = 0 => domainOk = "false"
        /\ Len(FirstLabel(domain)) = 1 => domainOk = "false"
        /\ IsIpLiteral(domain) => domainOk = "false"

C8_Witness ==
    /\ domainOk = "true"
    /\ Len(FirstLabel(domain)) = 63
    /\ "-" \in Range(FirstLabel(domain))
    /\ DotCount(domain) = 2

\* C9: the generate flow runs validate domain, validate expiration, obtain hardware
\* id, generate core key, append checksum in that order and stops at the first step
\* that fails: after an invalid domain nothing else is called and the domain error
\* is the one printed, and no external primitive is called before both validators
\* returned true.
C9_OrderAndFailFast ==
    cmd = "generate" =>
        /\ \A i, j \in DOMAIN calls : i < j => StepOf(calls[i]) < StepOf(calls[j])
                                             \/ (StepOf(calls[i]) = 4 /\ StepOf(calls[j]) = 4)
        /\ calls # <<>> => calls[1] = "isValidDomain"
        /\ \A i \in DOMAIN calls :
              StepOf(calls[i]) = 2 => GrammarDomain(domain)
        /\ \A i \in DOMAIN calls :
              StepOf(calls[i]) >= 3 =>
                  /\ GrammarDomain(domain)
                  /\ expireOk = "true"
                  /\ i >= 3
        /\ (pc = "done" /\ ~GrammarDomain(domain)) =>
              /\ calls = <<"isValidDomain">>
              /\ expireOk = "unset"
              /\ FailedWith(InvalidDomainMessage)
        /\ (pc = "done" /\ expireOk = "false") =>
              /\ calls = <<"isValidDomain", "isValidExpirationDate">>
              /\ FailedWith(InvalidExpirationMessage)
        /\ (pc = "done" /\ fault = "machineId" /\ expireOk = "true") =>
              calls = <<"isValidDomain", "isValidExpirationDate", "machineIdSync">>
        /\ (pc = "done" /\ exitCode = "1") => ~("createHash:md5" \in Range(calls)) \/ fault = "md5"

C9_Witness ==
    /\ GenerateDone
    /\ domain = <<"-", "b", "a", "d", ".", "c", "o", "m">>
    /\ expire = <<"2", "0", "2", "0", "-", "0", "1", "-", "0", "1">>
    /\ calls = <<"isValidDomain">>
    /\ FailedWith(InvalidDomainMessage)

\* C10 as stated: every key verify reports valid has the wire format of a license
\* key, 32 + 64 + 8 lowercase hex characters.
C10_ValidImpliesWireFormat == ReportedValid => IsWireFormat(key)

\* C10 amended: every key verify reports valid has exactly 3 parts, the third of 8
\* lowercase hex characters; the first two are any strings without a dot.
C10_ValidImpliesThreePartsAndChecksum ==
    ReportedValid =>
        /\ DotCount(key) = 2
        /\ IsLowerHex(Split(key, ".")[3], 8)
        /\ parts = Split(key, ".")

C10_Witness ==
    /\ ReportedValid
    /\ origin = "argv"
    /\ Len(key) = 12
    /\ ~IsWireFormat(key)

====
